---- MODULE Spec2Model ----
(***************************************************************************)
(* Model of the mavros_gym episode engine:                                 *)
(*   RobotSimEnv (src/src/mavros_gym/robot_sim_env.py): step, reset,       *)
(*     _update_episode, _publish_reward_topic;                             *)
(*   UAVFollowTrajectoryTaskEnv                                            *)
(*     (src/src/task_envs/uav_follow_trajectory_task_env.py): the task     *)
(*     hooks _pre_reset, _init_env_variables, _set_action, _get_obs,       *)
(*     _is_done, _compute_reward and the geometry helpers.                 *)
(*                                                                         *)
(* Numbers.  Pose components are fixed-point, in units of half a metre     *)
(* (or half of a quaternion component), so 0.5 is the integer 1.           *)
(* Square roots (numpy.linalg.norm, math.sqrt) are rounded down to         *)
(* 1/Precision of that unit.  A float that may be NaN or not yet assigned  *)
(* is a record [kind, v] with kind in {"val", "nan", "unset"}; a call that *)
(* raised instead of returning a float has kind "raise".                   *)
(*                                                                         *)
(* Control.  Each handler (step, reset) is a chain of actions, one per     *)
(* source statement that touches the world or the episode state; pc is     *)
(* the handler's position.  Between two statements the simulated world may *)
(* move (Physics, only while it is not paused) and the collision sensor    *)
(* may report (CollisionCallback).                                         *)
(***************************************************************************)
EXTENDS Integers, Sequences, FiniteSets, TLC

\* ------------------------------------------------------------------ bounds
\* Largest number of handler calls (reset or step) in a behaviour.
MaxCalls == 4
\* Square roots are rounded down to 1/Precision of a pose unit.
Precision == 10

\* --------------------------------------------------------- configuration
\* The pose unit is half a metre, so the literal 0.5 of _compute_reward is 1.
\* epsilon=0.5 of the terminal goal test, in pose units.
TerminalEpsilon == 1
\* Default epsilon=0.05 of is_in_desired_pose is never used by a caller.
\* Reward policy (attributes of the task, read at the lines named in the map).
closer_to_point_reward == 2
collision_penalty == -5
end_episode_points == 7
\* Value of the collision_check accessor when a collision is reported (True).
CollisionValue == 1
\* Workspace, in pose units; lower bounds exclusive, upper bounds inclusive.
work_space_x_min == -2
work_space_x_max == 6
work_space_y_min == -2
work_space_y_max == 2
work_space_z_min == -8
work_space_z_max == 0
\* Minimum altitude (altitude is -z).
min_height == 1
\* tan(max_roll) = tan(max_pitch) = TanMaxNum / TanMaxDen, limits in (0, pi/2).
TanMaxNum == 1
TanMaxDen == 2

\* desired_pose: position (1, 0, -2) m, orientation w = 1.
desired_pose == <<2, 0, -4, 2, 0, 0, 0>>

\* The values desired_pose_epsilon may be configured to: 0.5 and 1.0.
Epsilons == {1, 2}

\* Position and orientation parts of a 7-vector <<x,y,z,qw,qx,qy,qz>>.
Position(p) == <<p[1], p[2], p[3]>>
Orientation(p) == <<p[4], p[5], p[6], p[7]>>

\* Poses the world can be in.
Poses ==
  { <<2, 0, -4,  2, 0, 0, 0>>,    \* exactly the desired pose
    <<1, 0, -4,  2, 0, 0, 0>>,    \* 0.5 short in x: in the 1.0 box only
    <<0, 0, -4,  2, 0, 0, 0>>,    \* start pose, 1 m from the goal
    <<7, 0, -4,  2, 0, 0, 0>>,    \* outside the workspace
    <<0, 0, 0,   2, 0, 0, 0>>,    \* on the ground
    <<0, 0, -4,  1, 1, 1, 1>>,    \* rolled by 90 degrees
    <<0, 0, -4,  0, 0, 0, 2>>,    \* yawed by 180 degrees
    <<0, 0, -4,  0, 0, 0, 0>> }   \* orientation not yet received: zero norm

\* Pose after the simulator was reset.
InitPose == <<0, 0, -4, 2, 0, 0, 0>>

\* Velocity commands a step may be given: <<vx, vy, vz, yaw_rate>>.
Actions == { <<0, 0, 0, 0>>, <<1, 0, 0, 0>> }

\* ------------------------------------------------------------ arithmetic
Dot(a, b) ==
  LET RECURSIVE S(_)
      S(i) == IF i > Len(a) THEN 0 ELSE a[i] * b[i] + S(i + 1)
  IN S(1)

VSub(a, b) == [i \in 1..Len(a) |-> a[i] - b[i]]
VAdd(a, b) == [i \in 1..Len(a) |-> a[i] + b[i]]
VNeg(a) == [i \in 1..Len(a) |-> 0 - a[i]]

\* Largest r with r*r <= n.
ISqrt(n) == CHOOSE r \in 0..n : r * r <= n /\ (r + 1) * (r + 1) > n

\* sqrt of a sum of squares of pose units, in units of 1/Precision of them.
FSqrt(n) == ISqrt(n * Precision * Precision)

Val(x) == [kind |-> "val", v |-> x]
NaN == [kind |-> "nan", v |-> 0]
Unset == [kind |-> "unset", v |-> 0]
\* Result of a call that raised instead of returning.
Raised == [kind |-> "raise", v |-> 0]

\* ------------------------------------------------------ geometry helpers
\* is_in_desired_pose: every component in (desired - eps, desired + eps].
is_in_desired_pose(current_pose, epsilon) ==
  /\ \A i \in 1..7 : current_pose[i] <= desired_pose[i] + epsilon
  /\ \A i \in 1..7 : current_pose[i] > desired_pose[i] - epsilon

is_inside_workspace(current_position) ==
  /\ current_position[1] > work_space_x_min
  /\ current_position[1] <= work_space_x_max
  /\ current_position[2] > work_space_y_min
  /\ current_position[2] <= work_space_y_max
  /\ current_position[3] > work_space_z_min
  /\ current_position[3] <= work_space_z_max

too_close_to_ground(current_position_z) == current_position_z < min_height

\* atan2(s, c) in (-max, max] for a limit max in (0, pi/2) with tangent
\* TanMaxNum/TanMaxDen.  atan2(0, 0) = 0.
AngleInRange(s, c) ==
  \/ s = 0 /\ c = 0
  \/ /\ c > 0
     /\ s * TanMaxDen <= TanMaxNum * c
     /\ s * TanMaxDen > 0 - TanMaxNum * c

\* atan2(s, sqrt(cc)) in (-max, max], cc >= 0 the square of the cosine part.
AngleInRangeSq(s, cc) ==
  \/ s = 0 /\ cc = 0
  \/ /\ cc > 0
     /\ (s <= 0 \/ s * s * TanMaxDen * TanMaxDen <= TanMaxNum * TanMaxNum * cc)
     /\ (s >= 0 \/ s * s * TanMaxDen * TanMaxDen < TanMaxNum * TanMaxNum * cc)

\* drone_has_flipped: euler_from_quaternion([x, y, z, w]) (static xyz axes)
\* through the rotation matrix M of the quaternion, here scaled by the
\* squared norm n; a quaternion of norm 0 gives the identity matrix.
\*   cy = sqrt(M00^2 + M10^2)
\*   cy > eps: roll = atan2(M21, M22), pitch = atan2(-M20, cy)
\*   else    : roll = atan2(-M12, M11), pitch = atan2(-M20, cy)
drone_has_flipped(o) ==
  LET w == o[1]
      x == o[2]
      y == o[3]
      z == o[4]
      n == w * w + x * x + y * y + z * z
      m00 == n - 2 * (y * y + z * z)
      m10 == 2 * (x * y + z * w)
      m20 == 2 * (x * z - y * w)
      m21 == 2 * (y * z + x * w)
      m22 == n - 2 * (x * x + y * y)
      m11 == n - 2 * (x * x + z * z)
      m12 == 2 * (y * z - x * w)
      cc == m00 * m00 + m10 * m10
      rollOk == IF cc > 0 THEN AngleInRange(m21, m22)
                          ELSE AngleInRange(0 - m12, m11)
      pitchOk == AngleInRangeSq(0 - m20, cc)
  IN IF n = 0 THEN FALSE ELSE ~(rollOk /\ pitchOk)

\* get_distance_between_points: numpy.linalg.norm(a - b).
get_distance_between_points(p_start, p_end) ==
  FSqrt(Dot(VSub(p_start, p_end), VSub(p_start, p_end)))

get_distance_from_desired_point(current_position) ==
  get_distance_between_points(current_position, Position(desired_pose))

\* get_difference_between_orientations.
\* Geodesic branch (lines 374-398): a start quaternion of norm 0 logs an
\* error and returns NaN (line 379).  Otherwise line 376 builds the pair
\* (scalar, 3-vector) and line 381 multiplies it element-wise with the
\* 4-vector o_end; numpy cannot broadcast shapes (2,) and (4,) (newer
\* numpy already refuses the ragged pair at line 376): ValueError, and
\* lines 382-398 are never reached.
\* Absolute branch (lines 400-408): the smaller of |a - b| and |a + b|.
get_difference_between_orientations(ostart, o_end, geo) ==
  IF geo
  THEN IF Dot(ostart, ostart) > 0 THEN Raised ELSE NaN
  ELSE LET d_minus == FSqrt(Dot(VSub(ostart, o_end), VSub(ostart, o_end)))
           d_plus == FSqrt(Dot(VAdd(ostart, o_end), VAdd(ostart, o_end)))
       IN IF d_minus < d_plus THEN Val(d_minus) ELSE Val(d_plus)

\* ------------------------------------------------------------------ state
VARIABLES
  geo_distance,              \* configuration: geodesic (TRUE) or absolute mode
  desired_pose_epsilon,      \* configuration: epsilon of the done decision
  paused,                    \* simulator: is the world paused
  pose,                      \* simulator: the robot's true pose
  collision,                 \* collaborator: what collision_check returns now
  episode_num,               \* RobotSimEnv.episode_num
  cumulated_episode_reward,  \* RobotSimEnv.cumulated_episode_reward
  reward_pub,                \* last message on /openai/reward (queue_size 1)
  pub_count,                 \* number of messages published on /openai/reward
  cumulated_reward,          \* task: cumulated_reward
  cumulated_steps,           \* task: cumulated_steps
  previous_distance,         \* task: previous_distance_from_des_point
  previous_orientation_diff, \* task: previous_difference_from_des_orientation
  pc,                        \* position inside the running handler, or "idle"
  action,                    \* step: its argument
  obs,                       \* step/reset: local obs (the 7 pose numbers)
  done,                      \* step: local done
  reward,                    \* step: local reward
  flags,                     \* _is_done: its five locals
  logged,                    \* _is_done: the messages it logged
  coll_read,                 \* _compute_reward: collision_check as it read it
  distance_difference,       \* _compute_reward: local distance_difference
  base_pose,                 \* _init_env_variables: local curr_pose
  calls,                     \* calls made so far by the running handler
  last_call,                 \* the handler that ran last: "none", "step", "reset"
  outcome,                   \* how it ended: "none", "returned", "raised"
  handler_calls,             \* number of reset and step calls so far
  steps_since_reset,         \* step calls returned since the last reset call
  returned_sum,              \* sum of the rewards those step calls returned
  pre,                       \* episode state when the running/last reset began
  last_observed,             \* pose last observed in the episode: by the
                             \* last reset for its baselines, then by each
                             \* step that returned; <<>> if there is none
  dist_in,                   \* orientation distance alone: <<a, b>>
  dist_out                   \* its results for (a,b), (b,a), (a,a), (a,-a)

world == <<paused, pose, collision>>
config == <<geo_distance, desired_pose_epsilon>>
episode == <<episode_num, cumulated_episode_reward, reward_pub, pub_count>>
task == <<cumulated_reward, cumulated_steps, previous_distance,
          previous_orientation_diff>>
locals == <<action, obs, done, reward, flags, logged, coll_read,
            distance_difference, base_pose>>
history == <<last_call, outcome, handler_calls, steps_since_reset,
             returned_sum, pre, last_observed>>
harness == <<dist_in, dist_out>>
vars == <<config, world, episode, task, locals, pc, calls, history, harness>>

None == <<>>
NoFlags == [has_collided |-> FALSE, is_inside_workspace_now |-> TRUE,
            too_close_to_grnd |-> FALSE, drone_flipped |-> FALSE,
            has_reached_des_pose |-> FALSE]
\* No message published yet.
NoMsg == [episode_number |-> -1, episode_reward |-> 0]
NoPre == [episode_num |-> 0, cumulated_episode_reward |-> 0, pub_count |-> 0]

\* The locals of a handler that is not running.
ClearLocals ==
  /\ action' = None
  /\ obs' = None
  /\ done' = FALSE
  /\ reward' = 0
  /\ flags' = NoFlags
  /\ logged' = {}
  /\ coll_read' = FALSE
  /\ distance_difference' = Unset
  /\ base_pose' = None

\* One more call of the running handler, with the world's pause state then.
Call(op) == calls' = Append(calls, [op |-> op, paused |-> paused])

\* RobotSimEnv.__init__, after SimulationHandler.setup paused the world.
\* cumulated_steps is given its first value outside the files modelled here.
InitProgram ==
  /\ geo_distance \in BOOLEAN
  /\ desired_pose_epsilon \in Epsilons
  /\ paused = TRUE
  /\ pose = InitPose
  /\ collision = FALSE
  /\ episode_num = 0
  /\ cumulated_episode_reward = 0
  /\ reward_pub = NoMsg
  /\ pub_count = 0
  /\ cumulated_reward = 0
  /\ cumulated_steps = 0
  /\ previous_distance = Unset
  /\ previous_orientation_diff = Unset
  /\ pc = "idle"
  /\ action = None
  /\ obs = None
  /\ done = FALSE
  /\ reward = 0
  /\ flags = NoFlags
  /\ logged = {}
  /\ coll_read = FALSE
  /\ distance_difference = Unset
  /\ base_pose = None
  /\ calls = <<>>
  /\ last_call = "none"
  /\ outcome = "none"
  /\ handler_calls = 0
  /\ steps_since_reset = 0
  /\ returned_sum = 0
  /\ pre = NoPre
  /\ last_observed = <<>>

Init ==
  /\ InitProgram
  /\ dist_in = None
  /\ dist_out = None

\* ------------------------------------------------------------ environment
\* The simulated world moves while it is not paused.
Physics ==
  /\ ~paused
  /\ pose' \in Poses \ {pose}
  /\ UNCHANGED <<paused, collision>>
  /\ UNCHANGED <<config, episode, task, locals, pc, calls, history, harness>>

\* The collaborator behind collision_check reports from its own callback;
\* every access of the property (lines 136, 193, 204) reads its latest value.
CollisionCallback ==
  /\ collision' = ~collision
  /\ UNCHANGED <<paused, pose>>
  /\ UNCHANGED <<config, episode, task, locals, pc, calls, history, harness>>

\* ------------------------------------------------------------------- step
\* get_difference_from_desired_orientation (lines 352-365).
get_difference_from_desired_orientation(current_orientation) ==
  get_difference_between_orientations(
      current_orientation, Orientation(desired_pose), geo_distance)

\* Faulty variant of IsDoneFlags: the goal test of the done decision uses a
\* box twice as wide as the configured one.
IsDoneFlags_WiderGoal(observations, collided) ==
  [has_collided |-> collided,
   is_inside_workspace_now |-> is_inside_workspace(Position(observations)),
   too_close_to_grnd |-> too_close_to_ground(0 - observations[3]),
   drone_flipped |-> drone_has_flipped(Orientation(observations)),
   has_reached_des_pose |->
       is_in_desired_pose(observations, 2 * desired_pose_epsilon)]

\* _is_done, lines 136-141: the five locals.
IsDoneFlags(observations, collided) ==
  [has_collided |-> collided,
   is_inside_workspace_now |-> is_inside_workspace(Position(observations)),
   too_close_to_grnd |-> too_close_to_ground(0 - observations[3]),
   drone_flipped |-> drone_has_flipped(Orientation(observations)),
   has_reached_des_pose |->
       is_in_desired_pose(observations, desired_pose_epsilon)]

\* _is_done, lines 145-158: one rospy.logerr per flag that is set.
IsDoneLogged(f) ==
  {m \in {"collided", "outside workspace", "too_close_to_ground",
          "has_flipped", "has_reached"} :
     \/ m = "collided" /\ f.has_collided
     \/ m = "outside workspace" /\ ~f.is_inside_workspace_now
     \/ m = "too_close_to_ground" /\ f.too_close_to_grnd
     \/ m = "has_flipped" /\ f.drone_flipped
     \/ m = "has_reached" /\ f.has_reached_des_pose}

\* Faulty variant of EpisodeDone: the flip test is left out.
EpisodeDone_NoFlip(f) ==
  \/ f.has_collided
  \/ ~f.is_inside_workspace_now
  \/ f.too_close_to_grnd
  \/ f.has_reached_des_pose

\* _is_done, lines 161-165: episode_done.
EpisodeDone(f) ==
  \/ f.has_collided
  \/ ~f.is_inside_workspace_now
  \/ f.too_close_to_grnd
  \/ f.drone_flipped
  \/ f.has_reached_des_pose

\* _compute_reward, lines 188-189; NaN propagates through the sum.
DistanceDifference(d, od, pd, pod) ==
  IF od.kind = "nan" \/ pod.kind = "nan"
  THEN NaN
  ELSE Val((d - pd.v) + 2 * (od.v - pod.v))

\* distance_difference < 0.0 (line 196); a comparison with NaN is False.
Negative(delta) == delta.kind = "val" /\ delta.v < 0

\* Faulty variant of RewardValue: at a terminal step the goal box is
\* tested before the collision.
RewardValue_GoalFirst(is_done, collided, delta, observations) ==
  IF ~is_done
  THEN IF Negative(delta) THEN closer_to_point_reward ELSE 0
  ELSE IF is_in_desired_pose(observations, TerminalEpsilon)
       THEN end_episode_points
       ELSE IF collided THEN collision_penalty ELSE 0 - end_episode_points

\* Faulty variant of RewardValue: distance_difference <= 0.0 instead of
\* < 0.0.
RewardValue_NonStrict(is_done, collided, delta, observations) ==
  IF ~is_done
  THEN IF delta.kind = "val" /\ delta.v <= 0
       THEN closer_to_point_reward
       ELSE 0
  ELSE IF collided
       THEN collision_penalty
       ELSE IF is_in_desired_pose(observations, TerminalEpsilon)
            THEN end_episode_points
            ELSE 0 - end_episode_points

\* _compute_reward, lines 191-209: the reward chosen.
RewardValue(is_done, collided, delta, observations) ==
  IF ~is_done
  THEN LET afterCollisionTest == IF collided THEN CollisionValue ELSE 0
           \* line 194; lines 196-201 assign reward again on both branches
       IN IF Negative(delta) THEN closer_to_point_reward ELSE 0
  ELSE IF collided
       THEN collision_penalty
       ELSE IF is_in_desired_pose(observations, TerminalEpsilon)
            THEN end_episode_points
            ELSE 0 - end_episode_points

\* step is called (gym contract: after a reset call); line 53.
StepUnpause ==
  /\ pc = "idle"
  /\ last_call # "none"
  /\ handler_calls < MaxCalls
  /\ \E a \in Actions : action' = a
  /\ paused' = FALSE
  /\ pc' = "s_set_action"
  /\ calls' = <<[op |-> "unpause", paused |-> paused]>>
  /\ last_call' = "step"
  /\ outcome' = "none"
  /\ handler_calls' = handler_calls + 1
  /\ UNCHANGED <<pose, collision>>
  /\ UNCHANGED <<obs, done, reward, flags, logged, coll_read,
                 distance_difference, base_pose>>
  /\ UNCHANGED <<steps_since_reset, returned_sum, pre, last_observed>>
  /\ UNCHANGED <<config, episode, task, harness>>

\* line 54, _set_action (lines 73-89): the action becomes a velocity
\* command, published to the robot; the argument is not used again.
StepSetAction ==
  /\ pc = "s_set_action"
  /\ action \in Actions
  /\ action' = None
  /\ pc' = "s_pause"
  /\ Call("set_action")
  /\ UNCHANGED <<obs, done, reward, flags, logged, coll_read,
                 distance_difference, base_pose>>
  /\ UNCHANGED <<paused, pose, collision>>
  /\ UNCHANGED <<config, episode, task, history, harness>>

\* Faulty variant of StepPause: step goes on to the observation without
\* pausing the world.
StepPause_Skipped ==
  /\ pc = "s_pause"
  /\ pc' = "s_get_obs"
  /\ Call("pause")
  /\ UNCHANGED <<paused, pose, collision>>
  /\ UNCHANGED <<config, episode, task, locals, history, harness>>

\* line 55.
StepPause ==
  /\ pc = "s_pause"
  /\ paused' = TRUE
  /\ pc' = "s_get_obs"
  /\ Call("pause")
  /\ UNCHANGED <<pose, collision>>
  /\ UNCHANGED <<config, episode, task, locals, history, harness>>

\* line 56, _get_obs (lines 91-119): the pose part of the observation.
StepGetObs ==
  /\ pc = "s_get_obs"
  /\ obs' = pose
  /\ pc' = "s_is_done"
  /\ Call("get_obs")
  /\ UNCHANGED <<action, done, reward, flags, logged, coll_read,
                 distance_difference, base_pose>>
  /\ UNCHANGED <<config, world, episode, task, history, harness>>

\* line 57, _is_done (lines 121-170).
StepIsDone ==
  /\ pc = "s_is_done"
  /\ flags' = IsDoneFlags(obs, collision)
  /\ logged' = IsDoneLogged(flags')
  /\ done' = EpisodeDone(flags')
  /\ pc' = "s_compute_reward"
  /\ Call("is_done")
  /\ UNCHANGED <<action, obs, reward, coll_read, distance_difference,
                 base_pose>>
  /\ UNCHANGED <<config, world, episode, task, history, harness>>

\* Faulty variant of _compute_reward: a terminal step leaves
\* previous_distance and previous_orientation_diff as they were.
StepComputeReward_NoTerminalUpdate ==
  /\ pc = "s_compute_reward"
  /\ LET distance_from_des_point ==
             get_distance_from_desired_point(Position(obs))
         difference_from_des_orientation ==
             get_difference_from_desired_orientation(Orientation(obs))
     IN IF \/ difference_from_des_orientation.kind = "raise"
           \/ previous_orientation_diff.kind = "unset"
        THEN /\ pc' = "idle"
             /\ outcome' = "raised"
             /\ ClearLocals
             /\ calls' = <<>>
             /\ UNCHANGED <<last_call, handler_calls, steps_since_reset,
                            returned_sum, pre, last_observed>>
             /\ UNCHANGED task
        ELSE /\ distance_difference' =
                    DistanceDifference(distance_from_des_point,
                                       difference_from_des_orientation,
                                       previous_distance,
                                       previous_orientation_diff)
             /\ coll_read' = collision
             /\ reward' = RewardValue(done, collision, distance_difference',
                                      obs)
             /\ previous_distance' =
                    IF done THEN previous_distance
                    ELSE Val(distance_from_des_point)
             /\ previous_orientation_diff' =
                    IF done THEN previous_orientation_diff
                    ELSE difference_from_des_orientation
             /\ cumulated_reward' = cumulated_reward + reward'
             /\ cumulated_steps' = cumulated_steps + 1
             /\ pc' = "s_return"
             /\ Call("compute_reward")
             /\ UNCHANGED <<action, obs, done, flags, logged, base_pose>>
             /\ UNCHANGED history
  /\ UNCHANGED <<config, world, episode, harness>>

\* line 59, _compute_reward (lines 172-220).  The orientation difference
\* may raise (line 186), and so does reading a previous difference that no
\* reset has assigned (line 189); the exception leaves step.
StepComputeReward ==
  /\ pc = "s_compute_reward"
  /\ LET distance_from_des_point ==
             get_distance_from_desired_point(Position(obs))
         difference_from_des_orientation ==
             get_difference_from_desired_orientation(Orientation(obs))
     IN IF \/ difference_from_des_orientation.kind = "raise"
           \/ previous_orientation_diff.kind = "unset"
        THEN /\ pc' = "idle"
             /\ outcome' = "raised"
             /\ ClearLocals
             /\ calls' = <<>>
             /\ UNCHANGED <<last_call, handler_calls, steps_since_reset,
                            returned_sum, pre, last_observed>>
             /\ UNCHANGED task
        ELSE /\ distance_difference' =
                    DistanceDifference(distance_from_des_point,
                                       difference_from_des_orientation,
                                       previous_distance,
                                       previous_orientation_diff)
             /\ coll_read' = collision
             /\ reward' = RewardValue(done, collision, distance_difference',
                                      obs)
             /\ previous_distance' = Val(distance_from_des_point)
             /\ previous_orientation_diff' = difference_from_des_orientation
             /\ cumulated_reward' = cumulated_reward + reward'
             /\ cumulated_steps' = cumulated_steps + 1
             /\ pc' = "s_return"
             /\ Call("compute_reward")
             /\ UNCHANGED <<action, obs, done, flags, logged, base_pose>>
             /\ UNCHANGED history
  /\ UNCHANGED <<config, world, episode, harness>>

\* lines 60-61: accumulate and return (obs, reward, done, info).
StepReturn ==
  /\ pc = "s_return"
  /\ cumulated_episode_reward' = cumulated_episode_reward + reward
  /\ returned_sum' = returned_sum + reward
  /\ steps_since_reset' = steps_since_reset + 1
  /\ outcome' = "returned"
  /\ pc' = "idle"
  /\ ClearLocals
  /\ UNCHANGED <<episode_num, reward_pub, pub_count>>
  /\ calls' = <<>>
  /\ last_observed' = obs
  /\ UNCHANGED <<last_call, handler_calls, pre>>
  /\ UNCHANGED <<config, world, task, harness>>

\* ------------------------------------------------------------------ reset
\* reset is called; line 75, _pre_reset (lines 25-35): unpause, stop the
\* pose estimator if one is used, disarm, wait for the robot to fall.
ResetPreReset ==
  /\ pc = "idle"
  /\ handler_calls < MaxCalls
  /\ paused' = FALSE
  /\ pc' = "r_pause"
  /\ calls' = <<[op |-> "unpause", paused |-> paused]>>
  /\ last_call' = "reset"
  /\ outcome' = "none"
  /\ handler_calls' = handler_calls + 1
  /\ steps_since_reset' = 0
  /\ returned_sum' = 0
  /\ UNCHANGED last_observed
  /\ pre' = [episode_num |-> episode_num,
             cumulated_episode_reward |-> cumulated_episode_reward,
             pub_count |-> pub_count]
  /\ UNCHANGED <<pose, collision>>
  /\ UNCHANGED <<config, episode, task, locals, harness>>

\* line 76.
ResetPause ==
  /\ pc = "r_pause"
  /\ paused' = TRUE
  /\ pc' = "r_reset_sim"
  /\ Call("pause")
  /\ UNCHANGED <<pose, collision>>
  /\ UNCHANGED <<config, episode, task, locals, history, harness>>

\* lines 77-78: the simulator goes back to its initial state;
\* _set_init_pose (lines 37-45) only returns True.
ResetSim ==
  /\ pc = "r_reset_sim"
  /\ pose' = InitPose
  /\ collision' = FALSE
  /\ pc' = "r_init_env"
  /\ Call("reset")
  /\ UNCHANGED paused
  /\ UNCHANGED <<config, episode, task, locals, history, harness>>

\* line 79, _init_env_variables, lines 53-60: unpause, reset the pose
\* estimator if one is used, arm and request takeoff.
ResetInitEnvUnpause ==
  /\ pc = "r_init_env"
  /\ paused' = FALSE
  /\ pc' = "r_init_vars"
  /\ Call("unpause")
  /\ UNCHANGED <<pose, collision>>
  /\ UNCHANGED <<config, episode, task, locals, history, harness>>

\* _init_env_variables, lines 63-71: zero cumulated_reward, read the pose,
\* store the two baselines.  The orientation difference may raise (line
\* 71), after lines 63 and 67-68 have assigned; the exception leaves reset.
ResetInitEnvVariables ==
  /\ pc = "r_init_vars"
  /\ cumulated_reward' = 0
  /\ UNCHANGED cumulated_steps
  /\ previous_distance' = Val(get_distance_from_desired_point(Position(pose)))
  /\ LET difference ==
             get_difference_from_desired_orientation(Orientation(pose))
     IN IF difference.kind = "raise"
        THEN /\ pc' = "idle"
             /\ outcome' = "raised"
             /\ ClearLocals
             /\ calls' = <<>>
             /\ last_observed' = <<>>
             /\ UNCHANGED previous_orientation_diff
        ELSE /\ previous_orientation_diff' = difference
             /\ base_pose' = pose
             /\ last_observed' = pose
             /\ pc' = "r_update_episode"
             /\ calls' = Append(calls, [op |-> "read_pose", paused |-> paused])
             /\ UNCHANGED outcome
             /\ UNCHANGED <<action, obs, done, reward, flags, logged,
                            coll_read, distance_difference>>
  /\ UNCHANGED <<last_call, handler_calls, steps_since_reset, returned_sum, pre>>
  /\ UNCHANGED <<config, world, episode, harness>>

\* _publish_reward_topic (lines 97-112): the message published.
RewardMsg(r, episode_number) ==
  [episode_number |-> episode_number, episode_reward |-> r]

\* line 80, _update_episode (lines 87-95): publish, increment, zero.
ResetUpdateEpisode ==
  /\ pc = "r_update_episode"
  /\ reward_pub' = RewardMsg(cumulated_episode_reward, episode_num)
  /\ pub_count' = pub_count + 1
  /\ episode_num' = episode_num + 1
  /\ cumulated_episode_reward' = 0
  /\ pc' = "r_get_obs"
  /\ Call("update_episode")
  /\ UNCHANGED <<config, world, task, locals, history, harness>>

\* line 81, _get_obs (lines 91-119).
ResetGetObs ==
  /\ pc = "r_get_obs"
  /\ obs' = pose
  /\ Call("get_obs")
  /\ pc' = "r_return"
  /\ UNCHANGED <<action, done, reward, flags, logged, coll_read,
                 distance_difference, base_pose>>
  /\ UNCHANGED history
  /\ UNCHANGED <<config, world, episode, task, harness>>

\* line 82: return obs.
ResetReturn ==
  /\ pc = "r_return"
  /\ outcome' = "returned"
  /\ pc' = "idle"
  /\ ClearLocals
  /\ calls' = <<>>
  /\ UNCHANGED <<last_call, handler_calls, steps_since_reset, returned_sum, pre,
                 last_observed>>
  /\ UNCHANGED <<config, world, episode, task, harness>>

Next ==
  \/ Physics
  \/ CollisionCallback
  \/ StepUnpause
  \/ StepSetAction
  \/ StepPause
  \/ StepGetObs
  \/ StepIsDone
  \/ StepComputeReward
  \/ StepReturn
  \/ ResetPreReset
  \/ ResetPause
  \/ ResetSim
  \/ ResetInitEnvUnpause
  \/ ResetInitEnvVariables
  \/ ResetUpdateEpisode
  \/ ResetGetObs
  \/ ResetReturn

Spec == Init /\ [][Next]_vars

\* ------------------------------------- the orientation distance on its own
\* Orientations the distance is applied to: those of Poses and their
\* negations (the same rotations).
OrientationInputs ==
  {Orientation(p) : p \in Poses} \cup {VNeg(Orientation(p)) : p \in Poses}

InitOrient ==
  /\ InitProgram
  /\ dist_in \in OrientationInputs \X OrientationInputs
  /\ dist_out = None

\* get_difference_between_orientations applied, in the configured mode, to
\* (a, b), (b, a), (a, a) and (a, -a).
ApplyDistance ==
  /\ Len(dist_in) = 2
  /\ Len(dist_out) = 0
  /\ LET a == dist_in[1]
         b == dist_in[2]
     IN dist_out' =
          << get_difference_between_orientations(a, b, geo_distance),
             get_difference_between_orientations(b, a, geo_distance),
             get_difference_between_orientations(a, a, geo_distance),
             get_difference_between_orientations(a, VNeg(a), geo_distance) >>
  /\ UNCHANGED dist_in
  /\ UNCHANGED <<config, world, episode, task, locals, pc, calls, history>>

NextOrient == ApplyDistance

SpecOrient == InitOrient /\ [][NextOrient]_vars

\* ----------------------------------------------------------------- claims
StepPcs == {"s_set_action", "s_pause", "s_get_obs", "s_is_done",
            "s_compute_reward", "s_return"}

\* C1: whenever no handler is running, cumulated_episode_reward is the sum
\* of the rewards returned by the step calls made since the last reset
\* call (or since construction).
C1_EpisodeRewardIsSumOfReturned ==
  pc = "idle" => cumulated_episode_reward = returned_sum

\* The calls of a step, in the order the claim gives.
StepCallOrder ==
  <<"unpause", "set_action", "pause", "get_obs", "is_done", "compute_reward">>

\* Number of calls a step has made when it stands at pc.
StepCallsMade ==
  CASE pc = "s_set_action" -> 1
    [] pc = "s_pause" -> 2
    [] pc = "s_get_obs" -> 3
    [] pc = "s_is_done" -> 4
    [] pc = "s_compute_reward" -> 5
    [] OTHER -> 6

\* C2: a running step has made its calls in the order unpause, apply
\* action, pause, build observation, evaluate done, compute reward; the
\* action was applied while the world was not paused; the observation was
\* sampled while the world was paused, and from then to the reward the
\* world stays paused, so the observation still is the world's pose.
C2_StepOrdering ==
  pc \in StepPcs =>
    /\ Len(calls) = StepCallsMade
    /\ \A i \in 1..Len(calls) : calls[i].op = StepCallOrder[i]
    /\ Len(calls) >= 2 => ~calls[2].paused
    /\ \A i \in 4..Len(calls) : calls[i].paused
    /\ Len(calls) >= 4 => paused /\ obs = pose

\* C2 witness: a step that has computed its reward, after the world moved
\* away from the start pose while the action was applied.
C2_Witness ==
  /\ pc = "s_return"
  /\ Len(calls) = 6
  /\ obs # InitPose

\* C3: a reset call that has ended published exactly one episode summary,
\* carrying the episode number and the cumulated episode reward as they
\* were when the call began, left episode_num one greater and
\* cumulated_episode_reward 0.
C3_ResetPublishesOnce ==
  pc = "idle" /\ last_call = "reset" =>
    /\ pub_count = pre.pub_count + 1
    /\ reward_pub = [episode_number |-> pre.episode_num,
                     episode_reward |-> pre.cumulated_episode_reward]
    /\ episode_num = pre.episode_num + 1
    /\ cumulated_episode_reward = 0

\* C4: once _is_done has run, each of the four pose flags is its test
\* applied to the observation, done is true exactly if at least one of the
\* five flags holds, and every flag that holds was reported.
C4_DoneIsAnyFlag ==
  pc \in {"s_compute_reward", "s_return"} =>
    /\ flags.is_inside_workspace_now = is_inside_workspace(Position(obs))
    /\ flags.too_close_to_grnd = too_close_to_ground(0 - obs[3])
    /\ flags.drone_flipped = drone_has_flipped(Orientation(obs))
    /\ flags.has_reached_des_pose =
         is_in_desired_pose(obs, desired_pose_epsilon)
    /\ done <=> (\/ flags.has_collided
                 \/ ~flags.is_inside_workspace_now
                 \/ flags.too_close_to_grnd
                 \/ flags.drone_flipped
                 \/ flags.has_reached_des_pose)
    /\ "collided" \in logged <=> flags.has_collided
    /\ "outside workspace" \in logged <=> ~flags.is_inside_workspace_now
    /\ "too_close_to_ground" \in logged <=> flags.too_close_to_grnd
    /\ "has_flipped" \in logged <=> flags.drone_flipped
    /\ "has_reached" \in logged <=> flags.has_reached_des_pose

\* C4 witness: _is_done has run on a rolled-over pose inside the workspace;
\* done rests on the flip flag alone and that flag alone was reported.
C4_Witness ==
  /\ pc = "s_compute_reward"
  /\ done
  /\ flags.drone_flipped
  /\ ~flags.has_collided
  /\ flags.is_inside_workspace_now
  /\ ~flags.too_close_to_grnd
  /\ ~flags.has_reached_des_pose
  /\ logged = {"has_flipped"}

\* C5: the reward of a terminal step is collision_penalty if the collision
\* flag is set, else +end_episode_points if the pose is in the 0.5 box
\* around the desired pose, else -end_episode_points.
C5_TerminalReward ==
  pc = "s_return" /\ done =>
    reward = IF coll_read
             THEN collision_penalty
             ELSE IF /\ \A i \in 1..7 : obs[i] <= desired_pose[i] + 1
                     /\ \A i \in 1..7 : obs[i] > desired_pose[i] - 1
                  THEN end_episode_points
                  ELSE 0 - end_episode_points

\* C5 witness: a terminal step with a collision at the desired pose.
C5_Witness ==
  /\ pc = "s_return"
  /\ done
  /\ coll_read
  /\ obs = desired_pose
  /\ reward = collision_penalty

\* C6: the reward of a non-terminal step whose collision flag is set is
\* the collision response, whatever the sign of combined_delta.
C6_NonTerminalCollisionReward ==
  pc = "s_return" /\ ~done /\ coll_read => reward = CollisionValue

\* C7: the reward of a non-terminal step without collision is
\* closer_to_point_reward if combined_delta < 0 and 0 if combined_delta >= 0.
C7_ShapingReward ==
  pc = "s_return" /\ ~done /\ ~coll_read /\ distance_difference.kind = "val" =>
    /\ distance_difference.v < 0 => reward = closer_to_point_reward
    /\ distance_difference.v >= 0 => reward = 0

\* C7 witness: a non-terminal step without collision that came closer.
C7_Witness ==
  /\ pc = "s_return"
  /\ ~done
  /\ ~coll_read
  /\ distance_difference.kind = "val"
  /\ distance_difference.v < 0
  /\ reward = closer_to_point_reward

\* C8: after a handler has returned, cumulated_steps is the number of step
\* calls made since the last reset call.
C8_StepsSinceReset ==
  pc = "idle" /\ outcome = "returned" => cumulated_steps = steps_since_reset

\* C9: no NaN is returned as an orientation distance, so none is stored as
\* previous_orientation_diff nor enters combined_delta.
C9_NoNaN ==
  /\ previous_orientation_diff.kind # "nan"
  /\ distance_difference.kind # "nan"

\* Two results of the orientation distance are the same number.
SameDistance(x, y) == x.kind = "val" /\ y.kind = "val" /\ x.v = y.v

\* C10: in both modes distance(a,b) = distance(b,a), distance(a,a) = 0 and
\* distance(a,-a) = 0.
C10_DistanceSymmetricZero ==
  Len(dist_out) = 4 =>
    /\ SameDistance(dist_out[1], dist_out[2])
    /\ SameDistance(dist_out[3], Val(0))
    /\ SameDistance(dist_out[4], Val(0))

\* The values lines 211-212 and 67-71 store for an observed pose.
StoredDistance(p) == Val(get_distance_from_desired_point(Position(p)))
StoredOrientationDiff(p) ==
  get_difference_from_desired_orientation(Orientation(p))

\* C11: previous_distance and previous_orientation_diff are overwritten
\* once per step, after the reward has been chosen, on terminal and
\* non-terminal steps alike: until a step has chosen its reward they hold the
\* values of the last observation of the episode (the one the reset read for
\* its baselines, then the one the previous step returned), once it has they
\* hold the values of the step's own observation, and the step's
\* combined_delta compares its observation with that last observation.
C11_PreviousUpdatedOncePerStep ==
  /\ pc # "s_return" /\ Len(last_observed) # 0 =>
       /\ previous_distance = StoredDistance(last_observed)
       /\ previous_orientation_diff = StoredOrientationDiff(last_observed)
  /\ pc = "s_return" =>
       /\ previous_distance = StoredDistance(obs)
       /\ previous_orientation_diff = StoredOrientationDiff(obs)
       /\ Len(last_observed) # 0 =>
            distance_difference =
              DistanceDifference(get_distance_from_desired_point(Position(obs)),
                                 StoredOrientationDiff(obs),
                                 StoredDistance(last_observed),
                                 StoredOrientationDiff(last_observed))

\* C11 witness: the second step after a reset has chosen its reward, the
\* first step was terminal (it left the workspace) and observed another pose,
\* and the second step's delta is measured from that terminal observation.
C11_Witness ==
  /\ pc = "s_return"
  /\ steps_since_reset = 1
  /\ Len(last_observed) # 0
  /\ last_observed # obs
  /\ ~is_inside_workspace(Position(last_observed))
  /\ distance_difference.kind = "val"
  /\ distance_difference.v # 0
  /\ previous_distance = StoredDistance(obs)
  /\ previous_distance # StoredDistance(last_observed)

\* C11 also for the first step: its delta is measured from the baseline the
\* reset stored, which is the pose the reset read, not the pose now observed.
C11_FirstStepWitness ==
  /\ pc = "s_return"
  /\ steps_since_reset = 0
  /\ Len(last_observed) # 0
  /\ last_observed # obs
  /\ distance_difference.kind = "val"
  /\ distance_difference.v # 0

\* The calls that sample the world's pose: the read for the baselines in
\* _init_env_variables (line 66) and _get_obs.
SamplingCalls == {"read_pose", "get_obs"}

\* C12: across reset too the pose is sampled only while the world is paused:
\* the pose reset reads for the baseline previous_distance and
\* previous_orientation_diff and the initial observation reset returns are
\* both sampled with pause as the last world-control command.
C12_ResetSamplesWhilePaused ==
  last_call = "reset" =>
    \A i \in 1..Len(calls) :
      calls[i].op \in SamplingCalls => calls[i].paused

\* A step that has chosen its reward, found the goal reached in its done
\* decision and saw the collision flag false at both of its reads.
ReachedGoalWithoutCollision ==
  /\ pc = "s_return"
  /\ flags.has_reached_des_pose
  /\ ~flags.has_collided
  /\ ~coll_read

\* C13: the done decision tests the goal with the configured
\* desired_pose_epsilon and the terminal reward with the fixed 0.5, and the
\* two agree in one direction only: a step that reached the goal without a
\* collision is terminal, and with desired_pose_epsilon <= 0.5 it returns
\* +end_episode_points; it returns -end_episode_points only with
\* desired_pose_epsilon > 0.5 and a pose outside the 0.5 box.
C13_GoalBoxesAgreeOneWay ==
  ReachedGoalWithoutCollision =>
    /\ done
    /\ desired_pose_epsilon <= TerminalEpsilon => reward = end_episode_points
    /\ reward # end_episode_points =>
         /\ reward = 0 - end_episode_points
         /\ desired_pose_epsilon > TerminalEpsilon
         /\ \E i \in 1..7 : \/ obs[i] > desired_pose[i] + TerminalEpsilon
                            \/ obs[i] <= desired_pose[i] - TerminalEpsilon

\* C13 witness: with desired_pose_epsilon = 1.0 a step ends the episode with
\* the goal reached, no collision, and returns -end_episode_points.
C13_Witness ==
  /\ ReachedGoalWithoutCollision
  /\ desired_pose_epsilon > TerminalEpsilon
  /\ done
  /\ reward = 0 - end_episode_points

\* C13, the agreeing direction: with desired_pose_epsilon = 0.5 a step
\* reaches the goal without collision and returns +end_episode_points.
C13_SmallBoxWitness ==
  /\ ReachedGoalWithoutCollision
  /\ desired_pose_epsilon <= TerminalEpsilon
  /\ done
  /\ reward = end_episode_points

====
